---- MODULE Spec2Model ----
(***************************************************************************)
(* The crossword CSP solver of 04 Optimization/crossword/generate.py:      *)
(* CrosswordCreator.solve() = enforce_node_consistency, ac3, backtrack.    *)
(* Words are sequences of letters; a slot (Variable) is a record           *)
(* [i, j, direction, length] with 0-based grid coordinates, and an overlap *)
(* is a pair of 0-based character offsets, as in the Python code.          *)
(* Python iterates sets in an order the program does not control: the      *)
(* model chooses such orders nondeterministically, and keeps an order once *)
(* it has been observed for a set that is not modified afterwards.         *)
(***************************************************************************)
EXTENDS Integers, Sequences, FiniteSets, TLC

\* Largest number of words in the dictionary.
MaxWords == 3

\* The alphabet and the word lengths the dictionaries are drawn from.
Letters == {"A", "B"}
WordLengths == {1, 2, 3}

ACROSS == "across"
DOWN == "down"

\* crossword.overlaps[x, y] of two slots that do not cross (Python's None).
NoOverlap == <<>>

T == TRUE
F == FALSE

\* The grid structures the puzzles are drawn from (TRUE = open cell).
\*   1: one slot of length 3
\*   2: an ACROSS and a DOWN slot of length 3 crossing at offsets (1, 0)
\*   3: two ACROSS slots of length 2 that do not cross
\*   4: an ACROSS slot of length 3 crossed by two DOWN slots of length 2
Structures ==
  { << <<T, T, T>> >>,
    << <<T, T, T>>, <<F, T, F>>, <<F, T, F>> >>,
    << <<T, T>>, <<F, F>>, <<T, T>> >>,
    << <<T, T, T>>, <<T, F, T>> >> }

VARIABLES
  structure,   \* crossword.structure
  words,       \* crossword.words
  order,       \* the order in which the set crossword.variables is iterated
  domains,     \* self.domains
  pc,          \* position in solve()
  queueArcs,   \* ac3: arcs of the initial set not yet popped from the deque
  queue,       \* ac3: arcs appended to the deque, in order
  ac3Result,   \* value returned by ac3 ("none" before it returns)
  assignment,  \* the dict shared by all backtrack frames
  stack,       \* backtrack frames that are inside their for loop
  iterSeq,     \* per slot: the iteration order of its domain observed so far
  retval,      \* value returned by the backtrack call that just returned
  result,      \* value returned by solve()
  calls,       \* number of backtrack invocations so far
  raised,      \* the exception that ended the run ("" when none was raised)
  run,         \* 1 in the first execution of the program, 2 in the second
  firstResult, \* what solve() returned in the first execution
  \* 02 Knowledge/minesweeper/minesweeper.py
  game,        \* Minesweeper.mines: the cells of the board that hold a mine
  moves_made,  \* MinesweeperAI.moves_made
  mines,       \* MinesweeperAI.mines
  safes,       \* MinesweeperAI.safes
  knowledge,   \* MinesweeperAI.knowledge: a list of sentences [cells, count]
  safe_move,   \* what the last call of make_safe_move returned, if it was called
  moves,       \* number of add_knowledge calls so far
  \* 01 Search/tictactoe/tictactoe.py
  board,       \* the board of the game, rows of "X", "O" or EMPTY
  \* 03 Uncertainty/pagerank/pagerank.py
  corpus,      \* page -> set of the pages it links to
  current_page,         \* sample_pagerank: current_page
  visited_pages_count,  \* sample_pagerank: visited_pages_count
  pagerank,    \* sample_pagerank: visits counted per page
  ppc          \* sample_pagerank: "loop", "done" or the exception raised

crosswordVars ==
  <<structure, words, order, domains, pc, queueArcs, queue, ac3Result,
    assignment, stack, iterSeq, retval, result, calls, raised, run,
    firstResult>>

minesweeperVars == <<game, moves_made, mines, safes, knowledge, safe_move, moves>>

tictactoeVars == <<board>>

pagerankVars == <<corpus, current_page, visited_pages_count, pagerank, ppc>>

notCrossword == <<minesweeperVars, tictactoeVars, pagerankVars>>

vars == <<crosswordVars, minesweeperVars, tictactoeVars, pagerankVars>>

\* The variables of the programs that are not running
MinesweeperIdle ==
  /\ game = {} /\ moves_made = {} /\ mines = {} /\ safes = {}
  /\ knowledge = <<>> /\ safe_move = {} /\ moves = 0

TictactoeIdle == board = <<>>

PagerankIdle ==
  /\ corpus = <<>> /\ current_page = 0 /\ visited_pages_count = 0
  /\ pagerank = <<>> /\ ppc = "idle"

CrosswordIdle ==
  /\ structure = <<>> /\ words = {} /\ order = <<>> /\ domains = <<>>
  /\ pc = "idle" /\ queueArcs = {} /\ queue = <<>> /\ ac3Result = "none"
  /\ assignment = <<>> /\ stack = <<>> /\ iterSeq = <<>> /\ retval = {}
  /\ result = {} /\ calls = 0 /\ raised = "" /\ run = 0 /\ firstResult = {}

----------------------------------------------------------------------------
\* Generic helpers

RECURSIVE Perms(_)
Perms(S) ==
  IF S = {} THEN { <<>> }
  ELSE UNION { { <<x>> \o p : p \in Perms(S \ {x}) } : x \in S }

Range(s) == { s[k] : k \in 1..Len(s) }

\* All words over Letters with a length in WordLengths.
WordPool == UNION { [1..n -> Letters] : n \in WordLengths }

Dictionaries == { d \in SUBSET WordPool : Cardinality(d) <= MaxWords }

----------------------------------------------------------------------------
\* The crossword (grid, slots, overlaps, neighbours)

Height(st) == Len(st)
Width(st) == Len(st[1])

\* structure[i][j] with 0-based i, j; FALSE outside the grid
Open(st, i, j) ==
  /\ i >= 0 /\ i < Height(st) /\ j >= 0 /\ j < Width(st)
  /\ st[i + 1][j + 1]

RECURSIVE RunLength(_, _, _, _)
RunLength(st, i, j, dir) ==
  IF ~Open(st, i, j) THEN 0
  ELSE 1 + (IF dir = DOWN THEN RunLength(st, i + 1, j, dir)
                          ELSE RunLength(st, i, j + 1, dir))

Variable(i, j, dir, len) == [i |-> i, j |-> j, direction |-> dir, length |-> len]

\* crossword.variables: the maximal open runs of length > 1
Variables(st) ==
  { Variable(i, j, DOWN, RunLength(st, i, j, DOWN)) :
      <<i, j>> \in { c \in (0..Height(st) - 1) \X (0..Width(st) - 1) :
                       /\ Open(st, c[1], c[2]) /\ ~Open(st, c[1] - 1, c[2])
                       /\ RunLength(st, c[1], c[2], DOWN) > 1 } }
  \cup
  { Variable(i, j, ACROSS, RunLength(st, i, j, ACROSS)) :
      <<i, j>> \in { c \in (0..Height(st) - 1) \X (0..Width(st) - 1) :
                       /\ Open(st, c[1], c[2]) /\ ~Open(st, c[1], c[2] - 1)
                       /\ RunLength(st, c[1], c[2], ACROSS) > 1 } }

\* Variable.cells, as a function of the 0-based character offset
Cell(v, k) ==
  << v.i + (IF v.direction = DOWN THEN k ELSE 0),
     v.j + (IF v.direction = ACROSS THEN k ELSE 0) >>

\* crossword.overlaps[v1, v2]: NoOverlap or <<i, j>>
Overlaps(v1, v2) ==
  LET common == { p \in (0..v1.length - 1) \X (0..v2.length - 1) :
                    Cell(v1, p[1]) = Cell(v2, p[2]) }
  IN  IF common = {} THEN NoOverlap ELSE CHOOSE p \in common : TRUE

\* crossword.neighbors(var)
Neighbors(var) ==
  { v \in Variables(structure) : v # var /\ Overlaps(v, var) # NoOverlap }

\* The keys of crossword.overlaps in insertion order: every ordered pair of
\* distinct slots, recorded by two nested enumerations of the slot set.
OverlapKeys ==
  LET n == Len(order)
      pairs == [ k \in 1..(n * n) |-> << order[((k - 1) \div n) + 1],
                                         order[((k - 1) % n) + 1] >> ]
  IN  SelectSeq(pairs, LAMBDA p : p[1] # p[2])

----------------------------------------------------------------------------
\* Pure parts of CrosswordCreator

\* Python's None as an optional value: None is the empty set, a value x is {x}.
None == {}
Some(x) == {x}
The(opt) == CHOOSE x \in opt : TRUE

EmptyAssignment == [v \in {} |-> <<>>]

\* assignment[variable] = value
Assign(a, variable, value) ==
  [v \in DOMAIN a \cup {variable} |-> IF v = variable THEN value ELSE a[v]]

\* Variant of the pop that leaves the entry in the dict
PopNothing(a, variable) == a

\* assignment.pop(variable)
Pop(a, variable) == [v \in DOMAIN a \ {variable} |-> a[v]]

\* __init__: every slot starts with a copy of the whole dictionary
InitialDomains(st, ws) == [v \in Variables(st) |-> ws]

\* enforce_node_consistency raises KeyError when it removes a word that is
\* not in the domain
NodeConsistencyRaises(doms) ==
  \E v \in DOMAIN doms : \E w \in words : v.length # Len(w) /\ w \notin doms[v]

\* Variant of enforce_node_consistency that removes only the longer words
\* (`<` written for `!=`)
EnforceNodeConsistencyLongerOnly(doms) ==
  [v \in DOMAIN doms |-> doms[v] \ { w \in words : v.length < Len(w) }]

\* enforce_node_consistency: remove every word whose length differs
EnforceNodeConsistency(doms) ==
  [v \in DOMAIN doms |-> doms[v] \ { w \in words : v.length # Len(w) }]

\* revise raises IndexError when a compared word is shorter than its offset
ReviseRaises(doms, x, y) ==
  LET overlap == Overlaps(x, y)
  IN  /\ overlap # NoOverlap
      /\ doms[x] # {} /\ doms[y] # {}
      /\ \/ \E wordX \in doms[x] : Len(wordX) <= overlap[1]
         \/ \E wordY \in doms[y] : Len(wordY) <= overlap[2]

\* Variant of revise that keeps the words of x that differ from some word of
\* y at the overlap (`!=` written for `==`)
ReviseKeepingMismatches(doms, x, y) ==
  LET overlap == Overlaps(x, y)
  IN  IF overlap = NoOverlap THEN [revised |-> FALSE, domains |-> doms]
      ELSE
        LET i == overlap[1]
            j == overlap[2]
            visited == { wordX \in doms[x] :
                           \E wordY \in doms[y] : wordX[i + 1] # wordY[j + 1] }
        IN  IF Cardinality(visited) = Cardinality(doms[x])
            THEN [revised |-> FALSE, domains |-> doms]
            ELSE [revised |-> TRUE, domains |-> [doms EXCEPT ![x] = visited]]

\* Variant of revise that collects the matching words of y instead of those
\* of x (visited.add(wordY))
ReviseCollectingY(doms, x, y) ==
  LET overlap == Overlaps(x, y)
  IN  IF overlap = NoOverlap THEN [revised |-> FALSE, domains |-> doms]
      ELSE
        LET i == overlap[1]
            j == overlap[2]
            visited == { wordY \in doms[y] :
                           \E wordX \in doms[x] : wordX[i + 1] = wordY[j + 1] }
        IN  IF Cardinality(visited) = Cardinality(doms[x])
            THEN [revised |-> FALSE, domains |-> doms]
            ELSE [revised |-> TRUE, domains |-> [doms EXCEPT ![x] = visited]]

\* revise(x, y): the pair (returned flag, domains afterwards)
Revise(doms, x, y) ==
  LET overlap == Overlaps(x, y)
  IN  IF overlap = NoOverlap THEN [revised |-> FALSE, domains |-> doms]
      ELSE
        LET i == overlap[1]
            j == overlap[2]
            visited == { wordX \in doms[x] :
                           \E wordY \in doms[y] : wordX[i + 1] = wordY[j + 1] }
        IN  IF Cardinality(visited) = Cardinality(doms[x])
            THEN [revised |-> FALSE, domains |-> doms]
            ELSE [revised |-> TRUE, domains |-> [doms EXCEPT ![x] = visited]]

\* ac3 with arcs = None: of every pair of slots only the ordering met first
\* among the keys of crossword.overlaps is put in queueArcs
RECURSIVE InitialArcsFrom(_, _, _)
InitialArcsFrom(keys, k, arcs) ==
  IF k > Len(keys) THEN arcs
  ELSE LET x == keys[k][1]
           y == keys[k][2]
       IN  IF <<x, y>> \notin arcs /\ <<y, x>> \notin arcs
           THEN InitialArcsFrom(keys, k + 1, arcs \cup { <<x, y>> })
           ELSE InitialArcsFrom(keys, k + 1, arcs)

InitialArcs == InitialArcsFrom(OverlapKeys, 1, {})

\* ac3(arcs): what deque(queueArcs) is built from. A supplied list keeps its
\* order; the set built when arcs is None is iterated in an unknown order.
Ac3Worklist(arcs) ==
  IF arcs # {} THEN [unordered |-> {}, ordered |-> CHOOSE a \in arcs : TRUE]
  ELSE [unordered |-> InitialArcs, ordered |-> <<>>]

\* Variant of assignment_complete that is off by one
AssignmentCompleteOffByOne(a) ==
  Cardinality(Variables(structure)) <= Cardinality(DOMAIN a) + 1

\* assignment_complete
AssignmentComplete(a) ==
  Cardinality(Variables(structure)) = Cardinality(DOMAIN a)

\* Variant of consistent that never compares the letters at an overlap
ConsistentIgnoringOverlaps(a) ==
  /\ \A v1, v2 \in DOMAIN a : v1 # v2 => a[v1] # a[v2]
  /\ \A v \in DOMAIN a : Len(a[v]) = v.length

\* consistent: distinct words, right lengths, agreeing overlaps of assigned
\* neighbours
Consistent(a) ==
  /\ \A v1, v2 \in DOMAIN a : v1 # v2 => a[v1] # a[v2]
  /\ \A v \in DOMAIN a : Len(a[v]) = v.length
  /\ \A v \in DOMAIN a : \A n \in Neighbors(v) :
       LET overlap == Overlaps(v, n)
       IN  (overlap # NoOverlap /\ n \in DOMAIN a)
             => a[v][overlap[1] + 1] = a[n][overlap[2] + 1]

\* order_domain_values: valueCount[word], the number of unassigned neighbours
\* of var whose domain contains the word itself
ValueCount(var, a, word) ==
  Cardinality({ neighbor \in Neighbors(var) \ DOMAIN a : word \in domains[neighbor] })

\* order_domain_values(var, assignment), for the order seq in which the set
\* self.domains[var] is iterated: sorted() is stable, so words of equal
\* valueCount keep the order in which they were put in the dict
OrderDomainValues(var, a, seq) ==
  LET n == Len(seq)
      before(i, j) ==
        \/ ValueCount(var, a, seq[i]) < ValueCount(var, a, seq[j])
        \/ ValueCount(var, a, seq[i]) = ValueCount(var, a, seq[j]) /\ i < j
      rank(i) == 1 + Cardinality({ j \in 1..n : before(j, i) })
  IN  [ k \in 1..n |-> seq[CHOOSE i \in 1..n : rank(i) = k] ]

\* select_unassigned_variable: one pass over the slots in iteration order,
\* keeping the first slot of the smallest domain and, among those, of the
\* largest degree; None when every slot is assigned
RECURSIVE SelectFrom(_, _, _)
SelectFrom(a, k, res) ==
  IF k > Len(order) THEN res
  ELSE LET variable == order[k]
       IN  IF variable \in DOMAIN a THEN SelectFrom(a, k + 1, res)
           ELSE IF \/ res = None
                   \/ Cardinality(domains[variable]) < Cardinality(domains[The(res)])
                   \/ /\ Cardinality(domains[variable]) = Cardinality(domains[The(res)])
                      /\ Cardinality(Neighbors(variable)) > Cardinality(Neighbors(The(res)))
                THEN SelectFrom(a, k + 1, Some(variable))
                ELSE SelectFrom(a, k + 1, res)

\* Variant of select_unassigned_variable that prefers the largest domain
\* (`>` written for `<`)
RECURSIVE SelectLargestFrom(_, _, _)
SelectLargestFrom(a, k, res) ==
  IF k > Len(order) THEN res
  ELSE LET variable == order[k]
       IN  IF variable \in DOMAIN a THEN SelectLargestFrom(a, k + 1, res)
           ELSE IF \/ res = None
                   \/ Cardinality(domains[variable]) > Cardinality(domains[The(res)])
                   \/ /\ Cardinality(domains[variable]) = Cardinality(domains[The(res)])
                      /\ Cardinality(Neighbors(variable)) > Cardinality(Neighbors(The(res)))
                THEN SelectLargestFrom(a, k + 1, Some(variable))
                ELSE SelectLargestFrom(a, k + 1, res)

SelectLargestDomain(a) == SelectLargestFrom(a, 1, None)

\* Variant of select_unassigned_variable that replaces the kept slot on a
\* tie of the degree too (`>=` written for `>`)
RECURSIVE SelectLaterFrom(_, _, _)
SelectLaterFrom(a, k, res) ==
  IF k > Len(order) THEN res
  ELSE LET variable == order[k]
       IN  IF variable \in DOMAIN a THEN SelectLaterFrom(a, k + 1, res)
           ELSE IF \/ res = None
                   \/ Cardinality(domains[variable]) < Cardinality(domains[The(res)])
                   \/ /\ Cardinality(domains[variable]) = Cardinality(domains[The(res)])
                      /\ Cardinality(Neighbors(variable)) >= Cardinality(Neighbors(The(res)))
                THEN SelectLaterFrom(a, k + 1, Some(variable))
                ELSE SelectLaterFrom(a, k + 1, res)

SelectPreferringLater(a) == SelectLaterFrom(a, 1, None)

SelectUnassignedVariable(a) == SelectFrom(a, 1, None)

----------------------------------------------------------------------------
\* The state machine of solve()

Init ==
  /\ structure \in Structures
  /\ words \in Dictionaries
  /\ order \in Perms(Variables(structure))
  /\ domains = InitialDomains(structure, words)
  /\ pc = "start"
  /\ queueArcs = {}
  /\ queue = <<>>
  /\ ac3Result = "none"
  /\ assignment = EmptyAssignment
  /\ stack = <<>>
  /\ iterSeq = [v \in Variables(structure) |-> <<>>]
  /\ retval = None
  /\ result = None
  /\ calls = 0
  /\ raised = ""
  /\ run = 1
  /\ firstResult = None
  /\ MinesweeperIdle /\ TictactoeIdle /\ PagerankIdle

\* An uncaught exception ends the run
Raise(exception) ==
  /\ raised' = exception
  /\ pc' = "done"

\* solve(): self.enforce_node_consistency()
SolveNodeConsistency ==
  /\ pc = "start"
  /\ IF NodeConsistencyRaises(domains)
     THEN Raise("KeyError") /\ UNCHANGED domains
     ELSE /\ domains' = EnforceNodeConsistency(domains)
          /\ pc' = "ac3_init"
          /\ UNCHANGED raised
  /\ UNCHANGED <<notCrossword, run, firstResult, structure, words, order, queueArcs, queue, ac3Result,
                 assignment, stack, iterSeq, retval, result, calls>>

\* solve(): self.ac3(), up to queue = deque(queueArcs)
Ac3Init ==
  /\ pc = "ac3_init"
  /\ queueArcs' = Ac3Worklist(None).unordered
  /\ queue' = Ac3Worklist(None).ordered
  /\ pc' = "ac3_loop"
  /\ UNCHANGED <<notCrossword, run, firstResult, structure, words, order, domains, ac3Result, assignment,
                 stack, iterSeq, retval, result, calls, raised>>

\* The arcs that queue.popleft() can return: any arc of the initial set while
\* one is left (a deque built from a set), then the appended arcs in order
NextArcs ==
  IF queueArcs # {} THEN queueArcs
  ELSE IF queue # <<>> THEN { Head(queue) } ELSE {}

\* Variant of the re-enqueueing that forgets `if neighbour != varuableY`
RequeuedIncludingY(variableX, variableY) ==
  { <<neighbour, variableX>> : neighbour \in Neighbors(variableX) }

\* The arcs ac3 appends after revising variableX against variableY
Requeued(variableX, variableY) ==
  { <<neighbour, variableX>> : neighbour \in Neighbors(variableX) \ {variableY} }

\* Variant of the iteration that reads the first arc without removing it
Ac3StepWithoutPop ==
  /\ pc = "ac3_loop"
  /\ \E arc \in NextArcs :
       LET variableX == arc[1]
           variableY == arc[2]
           rest == queue
       IN  /\ queueArcs' = queueArcs
           /\ IF ReviseRaises(domains, variableX, variableY)
              THEN Raise("IndexError") /\ queue' = rest /\ UNCHANGED <<domains, ac3Result>>
              ELSE
                LET r == Revise(domains, variableX, variableY)
                IN  /\ domains' = r.domains
                    /\ UNCHANGED raised
                    /\ IF r.revised /\ Cardinality(r.domains[variableX]) = 0
                       THEN /\ ac3Result' = "False"
                            /\ pc' = "ac3_ret"
                            /\ queue' = rest
                       ELSE /\ UNCHANGED <<ac3Result, pc>>
                            /\ IF r.revised
                               THEN \E added \in Perms(Requeued(variableX, variableY)) :
                                      queue' = rest \o added
                               ELSE queue' = rest
  /\ UNCHANGED <<notCrossword, run, firstResult, structure, words, order, assignment, stack, iterSeq, retval,
                 result, calls>>

\* ac3: one iteration of the while loop
Ac3Step ==
  /\ pc = "ac3_loop"
  /\ \E arc \in NextArcs :
       LET variableX == arc[1]
           variableY == arc[2]
           rest == IF queueArcs # {} THEN queue ELSE Tail(queue)
       IN  /\ queueArcs' = queueArcs \ {arc}
           /\ IF ReviseRaises(domains, variableX, variableY)
              THEN Raise("IndexError") /\ queue' = rest /\ UNCHANGED <<domains, ac3Result>>
              ELSE
                LET r == Revise(domains, variableX, variableY)
                IN  /\ domains' = r.domains
                    /\ UNCHANGED raised
                    /\ IF r.revised /\ Cardinality(r.domains[variableX]) = 0
                       THEN /\ ac3Result' = "False"
                            /\ pc' = "ac3_ret"
                            /\ queue' = rest
                       ELSE /\ UNCHANGED <<ac3Result, pc>>
                            /\ IF r.revised
                               THEN \E added \in Perms(Requeued(variableX, variableY)) :
                                      queue' = rest \o added
                               ELSE queue' = rest
  /\ UNCHANGED <<notCrossword, run, firstResult, structure, words, order, assignment, stack, iterSeq, retval,
                 result, calls>>

\* ac3: the worklist is empty, return True
Ac3Exit ==
  /\ pc = "ac3_loop"
  /\ NextArcs = {}
  /\ ac3Result' = "True"
  /\ pc' = "ac3_ret"
  /\ UNCHANGED <<notCrossword, run, firstResult, structure, words, order, domains, queueArcs, queue,
                 assignment, stack, iterSeq, retval, result, calls, raised>>

\* solve(): return self.backtrack(dict()); the value of ac3 is not looked at
SolveBacktrack ==
  /\ pc = "ac3_ret"
  /\ assignment' = EmptyAssignment
  /\ pc' = "bt_enter"
  /\ UNCHANGED <<notCrossword, run, firstResult, structure, words, order, domains, queueArcs, queue,
                 ac3Result, stack, iterSeq, retval, result, calls, raised>>

\* backtrack: entry of a call, up to the start of its for loop; the frame
\* keeps, besides the locals, the contents of the dict at the call (entry)
BacktrackEnter ==
  /\ pc = "bt_enter"
  /\ calls' = calls + 1
  /\ IF AssignmentComplete(assignment)
     THEN /\ retval' = Some(assignment)
          /\ pc' = "bt_return"
          /\ UNCHANGED <<stack, raised>>
     ELSE LET variable == SelectUnassignedVariable(assignment)
          IN  IF variable = None
              THEN Raise("KeyError") /\ UNCHANGED <<stack, retval>>
              ELSE /\ stack' = Append(stack, [variable |-> The(variable), k |-> 0,
                                           entry |-> assignment])
                   /\ pc' = "bt_loop"
                   /\ UNCHANGED <<retval, raised>>
  /\ UNCHANGED <<notCrossword, run, firstResult, structure, words, order, domains, queueArcs, queue,
                 ac3Result, assignment, iterSeq, result>>

\* The values the for loop of the top frame can yield next: the one already
\* observed at this position of the slot's domain, or any not yet observed
NextValues(frame) ==
  IF frame.k < Len(iterSeq[frame.variable])
  THEN { iterSeq[frame.variable][frame.k + 1] }
  ELSE domains[frame.variable] \ Range(iterSeq[frame.variable])

\* backtrack: the for loop takes its next value, assignment[variable] = value
BacktrackAssign ==
  /\ pc = "bt_loop"
  /\ LET frame == stack[Len(stack)]
     IN  \E value \in NextValues(frame) :
           /\ iterSeq' = IF frame.k < Len(iterSeq[frame.variable]) THEN iterSeq
                         ELSE [iterSeq EXCEPT ![frame.variable] = Append(@, value)]
           /\ assignment' = Assign(assignment, frame.variable, value)
           /\ stack' = [stack EXCEPT ![Len(stack)].k = frame.k + 1]
           /\ pc' = "bt_check"
  /\ UNCHANGED <<notCrossword, run, firstResult, structure, words, order, domains, queueArcs, queue,
                 ac3Result, retval, result, calls, raised>>

\* backtrack: if self.consistent(assignment) recurse, else assignment.pop
BacktrackCheck ==
  /\ pc = "bt_check"
  /\ IF Consistent(assignment)
     THEN /\ pc' = "bt_enter"
          /\ UNCHANGED assignment
     ELSE /\ assignment' = Pop(assignment, stack[Len(stack)].variable)
          /\ pc' = "bt_loop"
  /\ UNCHANGED <<notCrossword, run, firstResult, structure, words, order, domains, queueArcs, queue,
                 ac3Result, stack, iterSeq, retval, result, calls, raised>>

\* backtrack: the for loop is exhausted, return None
BacktrackExhausted ==
  /\ pc = "bt_loop"
  /\ NextValues(stack[Len(stack)]) = {}
  /\ retval' = None
  /\ stack' = SubSeq(stack, 1, Len(stack) - 1)
  /\ pc' = "bt_return"
  /\ UNCHANGED <<notCrossword, run, firstResult, structure, words, order, domains, queueArcs, queue,
                 ac3Result, assignment, iterSeq, result, calls, raised>>

\* backtrack: the recursive call returned into the frame on top of the stack
BacktrackReturn ==
  /\ pc = "bt_return"
  /\ stack # <<>>
  /\ IF retval # None
     THEN /\ stack' = SubSeq(stack, 1, Len(stack) - 1)
          /\ UNCHANGED <<assignment, pc>>
     ELSE /\ assignment' = Pop(assignment, stack[Len(stack)].variable)
          /\ pc' = "bt_loop"
          /\ UNCHANGED stack
  /\ UNCHANGED <<notCrossword, run, firstResult, structure, words, order, domains, queueArcs, queue,
                 ac3Result, iterSeq, retval, result, calls, raised>>

\* solve(): the outermost backtrack call returned
SolveReturn ==
  /\ pc = "bt_return"
  /\ stack = <<>>
  /\ result' = retval
  /\ pc' = "done"
  /\ UNCHANGED <<notCrossword, run, firstResult, structure, words, order, domains, queueArcs, queue,
                 ac3Result, assignment, stack, iterSeq, retval, calls, raised>>

Next ==
  \/ SolveNodeConsistency
  \/ Ac3Init
  \/ Ac3Step
  \/ Ac3Exit
  \/ SolveBacktrack
  \/ BacktrackEnter
  \/ BacktrackAssign
  \/ BacktrackCheck
  \/ BacktrackExhausted
  \/ BacktrackReturn
  \/ SolveReturn

Spec == Init /\ [][Next]_vars

\* A sequential program keeps running until solve() returns
FairSpec == Spec /\ WF_vars(Next)

\* main() executed a second time on the same structure and word list: a new
\* Crossword and CrosswordCreator, and new iteration orders of their sets
Rerun ==
  /\ pc = "done"
  /\ run = 1
  /\ run' = 2
  /\ firstResult' = result
  /\ order' \in Perms(Variables(structure))
  /\ domains' = InitialDomains(structure, words)
  /\ pc' = "start"
  /\ queueArcs' = {}
  /\ queue' = <<>>
  /\ ac3Result' = "none"
  /\ assignment' = EmptyAssignment
  /\ stack' = <<>>
  /\ iterSeq' = [v \in Variables(structure) |-> <<>>]
  /\ retval' = None
  /\ result' = None
  /\ calls' = 0
  /\ raised' = ""
  /\ UNCHANGED <<notCrossword, structure, words>>

NextTwoRuns == Next \/ Rerun

SpecTwoRuns == Init /\ [][NextTwoRuns]_vars

----------------------------------------------------------------------------
\* What the claims are stated with

Slots == Variables(structure)

\* The dictionary words of the slot's length
NodeDomain(s) == { w \in words : Len(w) = s.length }

\* Lengths fit, crossing letters agree, no word is used twice
GloballyConsistent(a) ==
  /\ \A s \in DOMAIN a : Len(a[s]) = s.length
  /\ \A x, y \in DOMAIN a :
       (x # y /\ Overlaps(x, y) # NoOverlap)
         => a[x][Overlaps(x, y)[1] + 1] = a[y][Overlaps(x, y)[2] + 1]
  /\ \A x, y \in DOMAIN a : x # y => a[x] # a[y]

\* The complete assignments of dictionary words that solve the puzzle
Solutions == { a \in [Slots -> words] : GloballyConsistent(a) }

\* Every word of every domain has a partner in each overlapping slot's domain
ArcConsistent(doms) ==
  \A x, y \in Slots :
    (x # y /\ Overlaps(x, y) # NoOverlap) =>
      \A wx \in doms[x] : \E wy \in doms[y] :
        wx[Overlaps(x, y)[1] + 1] = wy[Overlaps(x, y)[2] + 1]

Returned == pc = "done" /\ raised = ""

InBacktrack == pc \in {"bt_enter", "bt_loop", "bt_check", "bt_return"}

----------------------------------------------------------------------------
\* C1: an assignment returned by solve() is globally consistent: every word
\* has the length of its slot, the letters of every two assigned slots that
\* overlap agree at the overlap, and no two slots hold the same word.
C1_ReturnedAssignmentConsistent ==
  (Returned /\ result # None) => GloballyConsistent(The(result))

\* C1 witness: solve() returned an assignment for crossing slots
C1_Witness ==
  /\ Returned /\ result # None
  /\ \E x, y \in DOMAIN The(result) : x # y /\ Overlaps(x, y) # NoOverlap

\* C2: what backtrack and solve() return is None or an assignment whose keys
\* are exactly the slots of the grid, never a partial assignment.
C2_AllOrNothing ==
  /\ (pc = "bt_return" /\ retval # None) => DOMAIN The(retval) = Slots
  /\ (Returned /\ result # None) => DOMAIN The(result) = Slots

\* C2 witness: solve() returned an assignment for a grid of three slots
C2_Witness ==
  /\ Returned /\ result # None
  /\ Cardinality(Slots) = 3
  /\ Cardinality(DOMAIN The(result)) = 3

\* C3: when the puzzle has a solution, node consistency and ac3 never remove a
\* word of a solution from a domain, and solve() returns an assignment.
C3_SolvableIsSolved ==
  /\ \A a \in Solutions : \A s \in Slots : a[s] \in domains[s]
  /\ (pc = "done" /\ Solutions # {}) => result # None

\* C3 witness: a solvable puzzle solved after ac3 pruned a domain
C3_Witness ==
  /\ Returned /\ Solutions # {} /\ result # None
  /\ \E s \in Slots : domains[s] # NodeDomain(s)

\* C4 (as claimed): after ac3 returned True every word of every domain has a
\* partner in the domain of every overlapping slot, in both directions.
C4_ArcConsistentAfterAc3 ==
  ac3Result = "True" => ArcConsistent(domains)

\* C5 (as claimed): after ac3 returned False, backtrack is never called.
C5_NoSearchAfterFailedAc3 ==
  ac3Result = "False" => calls = 0

\* C5 (amended): after ac3 returned False, solve() still calls backtrack, but
\* only the root call is made: it assigns no slot, and solve() returns None.
C5_FailedAc3FailsAtRoot ==
  ac3Result = "False" =>
    /\ calls <= 1
    /\ assignment = EmptyAssignment
    /\ pc = "done" => (result = None /\ raised = "" /\ calls = 1)

\* C5 witness: solve() returned after a failed ac3 and one backtrack call
C5_Witness ==
  /\ Returned /\ ac3Result = "False" /\ calls = 1
  /\ \E s \in Slots : domains[s] # {}

\* C6 (as claimed): ac3 returns True only with arc consistent domains none of
\* which is empty, and False when a domain is empty; in particular not True
\* when a slot that overlaps another had an empty domain when ac3 started.
C6_Ac3ResultTellsEmptyDomain ==
  /\ ac3Result = "True" =>
       /\ ArcConsistent(domains)
       /\ \A s \in Slots : domains[s] # {}
  /\ (ac3Result # "none" /\ \E s \in Slots : domains[s] = {}) => ac3Result = "False"
  /\ (\E s \in Slots : Neighbors(s) # {} /\ NodeDomain(s) = {}) => ac3Result # "True"

\* C7: after enforce_node_consistency the domain of every slot is exactly the
\* set of dictionary words of the slot's length, possibly empty, and no
\* exception was raised.
C7_NodeConsistency ==
  /\ raised # "KeyError"
  /\ pc = "ac3_init" => \A s \in Slots : domains[s] = NodeDomain(s)

\* C7 witness: node consistency left one domain empty and shrank another
C7_Witness ==
  /\ pc = "ac3_init" /\ raised = ""
  /\ \E s \in Slots : domains[s] = {}
  /\ \E s \in Slots : domains[s] # {} /\ domains[s] # words

\* C8: every step of solve() leaves each slot's domain a subset of what it
\* was, and the steps of backtrack leave the domains unchanged.
C8_DomainsOnlyShrink ==
  [][ /\ DOMAIN domains' = DOMAIN domains
      /\ \A s \in DOMAIN domains : domains'[s] \subseteq domains[s]
      /\ InBacktrack => domains' = domains ]_vars

\* C8 witness: the search ran to its end on domains that ac3 had pruned
C8_Witness ==
  /\ Returned /\ calls > 1
  /\ \E s \in Slots : domains[s] # NodeDomain(s) /\ domains[s] # {}

\* C9 (as claimed): a second run on the same grid and dictionary returns the
\* identical assignment.
C9_SameAssignment ==
  (run = 2 /\ pc = "done") => result = firstResult

\* C9 (amended): two runs agree on whether there is a solution, each returns
\* a solution of the puzzle or None, and they return the identical assignment
\* when the puzzle has at most one solution.
C9_SameUpToChoiceOfSolution ==
  (run = 2 /\ pc = "done") =>
    /\ result = None <=> firstResult = None
    /\ result \subseteq Solutions /\ firstResult \subseteq Solutions
    /\ Cardinality(Solutions) <= 1 => result = firstResult

\* C9 witness: two runs of a puzzle with a single solution, both solved
C9_Witness ==
  /\ run = 2 /\ Returned
  /\ Cardinality(Solutions) = 1 /\ Cardinality(Slots) > 1
  /\ result # None /\ result = firstResult

\* C10: solve() raises no exception and terminates; for a puzzle without a
\* solution it returns None; when a slot has no word of its length the root
\* call of backtrack fails without assigning any slot.
C10_UnsatisfiableIsNone ==
  /\ [](/\ raised = ""
        /\ (pc = "done" /\ Solutions = {}) => result = None
        /\ (\E s \in Slots : NodeDomain(s) = {}) =>
             (calls <= 1 /\ assignment = EmptyAssignment))
  /\ <>(pc = "done")

\* C10 witness: a slot without a word of its length, not noticed by ac3, made
\* the root call of backtrack return None
C10_Witness ==
  /\ Returned /\ result = None /\ calls = 1
  /\ ac3Result = "True"
  /\ \E s \in Slots : NodeDomain(s) = {}
  /\ \E s \in Slots : NodeDomain(s) # {}

----------------------------------------------------------------------------
\* C15 (as claimed): the worklist ac3 starts from holds both orderings of
\* every pair of overlapping slots when no arc list is given, and is exactly
\* the given list otherwise.
C15_InitialWorklist ==
  [][ pc = "ac3_init" =>
        /\ \A x, y \in Slots :
             (x # y /\ Overlaps(x, y) # NoOverlap) =>
               (<<x, y>> \in queueArcs' /\ <<y, x>> \in queueArcs')
        /\ \A x, y \in Slots :
             x # y => Ac3Worklist(Some(<< <<x, y>> >>)) =
                        [unordered |-> {}, ordered |-> << <<x, y>> >>] ]_vars

\* C16: the revise(x, y) done for a popped arc leaves in domain(x) exactly
\* the words that have a partner in domain(y) at the overlap, reports a
\* revision exactly when domain(x) changed, changes no other domain, and for
\* slots without overlap reports no revision and changes nothing.
C16_ReviseExact ==
  [][ (pc = "ac3_loop" /\ NextArcs # {}) =>
        LET arc == IF queueArcs # {} THEN CHOOSE a \in queueArcs : a \notin queueArcs'
                   ELSE Head(queue)
            x == arc[1]
            y == arc[2]
            o == Overlaps(x, y)
            r == Revise(domains, x, y)
        IN  /\ domains' = r.domains
            /\ \A s \in Slots \ {x} : domains'[s] = domains[s]
            /\ r.revised <=> domains'[x] # domains[x]
            /\ o = NoOverlap => (~r.revised /\ domains' = domains)
            /\ o # NoOverlap =>
                 domains'[x] = { w \in domains[x] :
                                   \E v \in domains[y] : w[o[1] + 1] = v[o[2] + 1] } ]_vars

\* C16 witness: during ac3 a revision has left a slot with some but not all
\* of its words
C16_Witness ==
  /\ pc = "ac3_loop" /\ raised = ""
  /\ \E s \in Slots : domains[s] # NodeDomain(s) /\ domains[s] # {}
  /\ \E x, y \in Slots : x # y /\ Overlaps(x, y) = NoOverlap

\* C17: when the revise of a popped arc (x, y) shrinks domain(x) to a
\* non-empty set, ac3 appends the arc (z, x) once for every neighbour z of x
\* other than y and nothing else; when domain(x) is unchanged nothing is
\* appended; the arcs already waiting keep their places.
C17_Requeue ==
  [][ (pc = "ac3_loop" /\ NextArcs # {}) =>
        LET arc == IF queueArcs # {} THEN CHOOSE a \in queueArcs : a \notin queueArcs'
                   ELSE Head(queue)
            x == arc[1]
            y == arc[2]
            rest == IF queueArcs # {} THEN queue ELSE Tail(queue)
            appended == SubSeq(queue', Len(rest) + 1, Len(queue'))
            expected == { <<z, x>> : z \in Neighbors(x) \ {y} }
        IN  /\ Len(queue') >= Len(rest)
            /\ SubSeq(queue', 1, Len(rest)) = rest
            /\ (domains'[x] # domains[x] /\ domains'[x] # {}) =>
                 (Range(appended) = expected /\ Len(appended) = Cardinality(expected))
            /\ domains'[x] = domains[x] => appended = <<>> ]_vars

\* C17 witness: ac3 has appended an arc and is still running
C17_Witness ==
  /\ pc = "ac3_loop" /\ queue # <<>>
  /\ \E s \in Slots : domains[s] # NodeDomain(s) /\ domains[s] # {}

\* The place of a slot in the enumeration of the slot set
OrderPos(s) == CHOOSE k \in 1..Len(order) : order[k] = s

\* The frame on top of the stack has just selected its slot
JustSelected == pc = "bt_loop" /\ stack[Len(stack)].k = 0

\* C20: the slot select_unassigned_variable returns is unassigned, has the
\* smallest domain among the unassigned slots, the most neighbours among
\* those of that domain size, and comes first in the slot enumeration among
\* the slots that tie on both.
C20_SelectUnassigned ==
  JustSelected =>
    LET v == stack[Len(stack)].variable
        unassigned == Slots \ DOMAIN assignment
        size(s) == Cardinality(domains[s])
        degree(s) == Cardinality(Neighbors(s))
    IN  /\ v \in unassigned
        /\ \A u \in unassigned :
             \/ size(v) < size(u)
             \/ size(v) = size(u) /\ degree(v) > degree(u)
             \/ size(v) = size(u) /\ degree(v) = degree(u) /\ OrderPos(v) <= OrderPos(u)

\* C20 witness: a slot was selected among two unassigned slots that tie on
\* domain size and degree, while a third has a different degree
C20_Witness ==
  /\ JustSelected
  /\ \E u \in Slots \ (DOMAIN assignment \cup {stack[Len(stack)].variable}) :
       /\ Cardinality(domains[u]) = Cardinality(domains[stack[Len(stack)].variable])
       /\ Cardinality(Neighbors(u)) = Cardinality(Neighbors(stack[Len(stack)].variable))
  /\ \E u \in Slots : Cardinality(Neighbors(u)) = 2

----------------------------------------------------------------------------
\* The number of values that choosing word w for slot var rules out among the
\* unassigned neighbours of var: the neighbour's words whose letter at the
\* overlap differs from w's
RuledOut(var, a, w) ==
  Cardinality({ p \in UNION { {n} \X domains[n] : n \in Neighbors(var) \ DOMAIN a } :
                  p[2][Overlaps(p[1], var)[1] + 1] # w[Overlaps(var, p[1])[1] + 1] })

\* The orders in which the set self.domains[var] can be iterated, given what
\* has been observed of it
IterationOrders(var) ==
  { seq \in Perms(domains[var]) :
      SubSeq(seq, 1, Len(iterSeq[var])) = iterSeq[var] }

\* C18 (as claimed): the words backtrack has tried for the selected slot are
\* the first words of the order computed by order_domain_values, and they
\* are in ascending order of the number of values they rule out, no untried
\* word ruling out fewer.
C18_TriedInLcvOrder ==
  pc = "bt_check" =>
    LET frame == stack[Len(stack)]
        var == frame.variable
        a == Pop(assignment, var)
        tried == SubSeq(iterSeq[var], 1, frame.k)
    IN  /\ \E seq \in IterationOrders(var) :
             SubSeq(OrderDomainValues(var, a, seq), 1, frame.k) = tried
        /\ \A i, j \in 1..frame.k :
             i < j => RuledOut(var, a, tried[i]) <= RuledOut(var, a, tried[j])
        /\ \A w \in domains[var] \ Range(tried) :
             RuledOut(var, a, tried[frame.k]) <= RuledOut(var, a, w)

\* C19 (as claimed): order_domain_values returns every word of the slot's
\* domain exactly once, in ascending order of the number of values the word
\* rules out among the unassigned neighbours.
C19_OrderDomainValues ==
  pc = "bt_loop" =>
    LET var == stack[Len(stack)].variable
    IN  \A seq \in IterationOrders(var) :
          LET out == OrderDomainValues(var, assignment, seq)
          IN  /\ Range(out) = domains[var]
              /\ Len(out) = Cardinality(domains[var])
              /\ \A i, j \in 1..Len(out) :
                   i < j => RuledOut(var, assignment, out[i])
                              <= RuledOut(var, assignment, out[j])

----------------------------------------------------------------------------
\* Tic-tac-toe (01 Search/tictactoe/tictactoe.py).  A board is board[i][j]
\* with i, j in 0..2.

X == "X"
O == "O"
EMPTY == "None"

\* math.inf: above every utility
Infinity == 2

xDesiredScore == 1
oDesiredScore == 0 - 1

Max(a, b) == IF a >= b THEN a ELSE b
Min(a, b) == IF a <= b THEN a ELSE b

initial_state == [ i \in 0..2 |-> [ j \in 0..2 |-> EMPTY ] ]

\* player: X when the number of filled cells is even
Player(b) ==
  LET count == Cardinality({ c \in (0..2) \X (0..2) : b[c[1]][c[2]] # EMPTY })
  IN  IF count % 2 = 0 THEN X ELSE O

\* actions: the empty cells, as a list in row-major order
Actions(b) ==
  SelectSeq([ k \in 1..9 |-> << (k - 1) \div 3, (k - 1) % 3 >> ],
            LAMBDA c : b[c[1]][c[2]] = EMPTY)

\* result raises NameError on a filled cell
ResultRaises(b, action) == b[action[1]][action[2]] # EMPTY

Result(b, action) == [ b EXCEPT ![action[1]][action[2]] = Player(b) ]

\* winner: rows, then columns, then the two diagonals; the diagonal tests
\* do not exclude EMPTY and return the centre cell, which is None (EMPTY)
\* on three empty cells
Winner(b) ==
  IF \E row \in 0..2 : b[row][0] = b[row][1] /\ b[row][1] = b[row][2] /\ b[row][2] # EMPTY
  THEN LET row == CHOOSE r \in 0..2 :
                    /\ b[r][0] = b[r][1] /\ b[r][1] = b[r][2] /\ b[r][2] # EMPTY
                    /\ \A q \in 0..2 :
                         (b[q][0] = b[q][1] /\ b[q][1] = b[q][2] /\ b[q][2] # EMPTY) => r <= q
       IN  b[row][0]
  ELSE IF \E col \in 0..2 : b[0][col] = b[1][col] /\ b[1][col] = b[2][col] /\ b[2][col] # EMPTY
  THEN LET col == CHOOSE c \in 0..2 :
                    /\ b[0][c] = b[1][c] /\ b[1][c] = b[2][c] /\ b[2][c] # EMPTY
                    /\ \A q \in 0..2 :
                         (b[0][q] = b[1][q] /\ b[1][q] = b[2][q] /\ b[2][q] # EMPTY) => c <= q
       IN  b[0][col]
  ELSE IF b[0][0] = b[1][1] /\ b[1][1] = b[2][2] THEN b[1][1]
  ELSE IF b[0][2] = b[1][1] /\ b[1][1] = b[2][0] THEN b[1][1]
  ELSE EMPTY

\* terminal: somebody has won, or no cell is empty
Terminal(b) ==
  \/ Winner(b) # EMPTY
  \/ \A i, j \in 0..2 : b[i][j] # EMPTY

\* utility without O's case: a mutation of utility
UtilityXOnly(b) == IF Winner(b) # EMPTY THEN 1 ELSE 0

Utility(b) ==
  LET win == Winner(b)
  IN  IF win = X THEN 1 ELSE IF win = O THEN 0 - 1 ELSE 0

RECURSIVE MaxValue(_), MinValue(_), MaxValueLoop(_, _, _), MinValueLoop(_, _, _)

\* the loop of max_value over the remaining actions, with its break
MaxValueLoop(b, acts, score) ==
  IF acts = << >> THEN score
  ELSE LET s == Max(score, MinValue(Result(b, Head(acts))))
       IN  IF s = xDesiredScore THEN s ELSE MaxValueLoop(b, Tail(acts), s)

MinValueLoop(b, acts, score) ==
  IF acts = << >> THEN score
  ELSE LET s == Min(score, MaxValue(Result(b, Head(acts))))
       IN  IF s = oDesiredScore THEN s ELSE MinValueLoop(b, Tail(acts), s)

MaxValue(b) ==
  IF Terminal(b) THEN Utility(b) ELSE MaxValueLoop(b, Actions(b), 0 - Infinity)

MinValue(b) ==
  IF Terminal(b) THEN Utility(b) ELSE MinValueLoop(b, Actions(b), Infinity)

RECURSIVE MinimaxLoop(_, _, _, _, _)

\* the loop of minimax from index i on: the index of the best action
MinimaxLoop(b, acts, i, bestScore, bestScoreActionId) ==
  IF i > Len(acts) THEN bestScoreActionId
  ELSE LET turn == Player(b)
           newBoard == Result(b, acts[i])
           actScore == IF turn = X THEN MinValue(newBoard) ELSE MaxValue(newBoard)
           desiredScore == IF turn = O THEN oDesiredScore ELSE xDesiredScore
       IN  IF (turn = X /\ actScore > bestScore) \/ (turn = O /\ actScore < bestScore)
           THEN IF actScore = desiredScore THEN i
                ELSE MinimaxLoop(b, acts, i + 1, actScore, i)
           ELSE MinimaxLoop(b, acts, i + 1, bestScore, bestScoreActionId)

\* minimax: None on a terminal board, otherwise the chosen action
Minimax(b) ==
  IF Terminal(b) THEN None
  ELSE LET acts == Actions(b)
           bestScore == IF Player(b) = O THEN Infinity ELSE 0 - Infinity
       IN  Some(acts[MinimaxLoop(b, acts, 1, bestScore, 1)])

TictactoeInit ==
  /\ board = initial_state
  /\ CrosswordIdle /\ MinesweeperIdle /\ PagerankIdle

\* the opponent plays any legal move
HumanMove ==
  /\ ~Terminal(board)
  /\ \E action \in Range(Actions(board)) :
       /\ ~ResultRaises(board, action)
       /\ board' = Result(board, action)
  /\ UNCHANGED <<crosswordVars, minesweeperVars, pagerankVars>>

\* the program plays the move minimax returns
AiMove ==
  /\ Minimax(board) # None
  /\ board' = Result(board, The(Minimax(board)))
  /\ UNCHANGED <<crosswordVars, minesweeperVars, pagerankVars>>

TictactoeNext == HumanMove \/ AiMove

TictactoeSpec == TictactoeInit /\ [][TictactoeNext]_vars

----------------------------------------------------------------------------
\* The lines of the board, and the game as the rules define it
Lines ==
  { { <<i, j>> : j \in 0..2 } : i \in 0..2 } \cup
  { { <<i, j>> : i \in 0..2 } : j \in 0..2 } \cup
  { { <<i, i>> : i \in 0..2 }, { <<i, 2 - i>> : i \in 0..2 } }

HasLine(b, mark) == \E line \in Lines : \A c \in line : b[c[1]][c[2]] = mark

EmptyCells(b) == { c \in (0..2) \X (0..2) : b[c[1]][c[2]] = EMPTY }

GameOver(b) == HasLine(b, X) \/ HasLine(b, O) \/ EmptyCells(b) = {}

ToMove(b) == IF Cardinality(EmptyCells(b)) % 2 = 1 THEN X ELSE O

Place(b, c) == [ b EXCEPT ![c[1]][c[2]] = ToMove(b) ]

SetMax(S) == CHOOSE m \in S : \A n \in S : n <= m
SetMin(S) == CHOOSE m \in S : \A n \in S : m <= n

RECURSIVE GameValue(_)

\* The value of a board under optimal play by both sides: 1 when X wins,
\* -1 when O wins, 0 for a draw
GameValue(b) ==
  IF HasLine(b, X) THEN 1
  ELSE IF HasLine(b, O) THEN 0 - 1
  ELSE IF EmptyCells(b) = {} THEN 0
  ELSE LET values == { GameValue(Place(b, c)) : c \in EmptyCells(b) }
       IN  IF ToMove(b) = X THEN SetMax(values) ELSE SetMin(values)

\* C13: on every board reachable by legal moves, minimax returns None when
\* the game is over, and otherwise an empty cell whose resulting board has
\* the game value of the board itself, the best any legal move can reach
\* for the player to move.
C13_MinimaxOptimal ==
  IF GameOver(board)
  THEN Minimax(board) = None
  ELSE /\ Minimax(board) # None
       /\ LET action == The(Minimax(board))
              value == [ c \in EmptyCells(board) |-> GameValue(Place(board, c)) ]
              best == IF ToMove(board) = X
                      THEN SetMax({ value[c] : c \in EmptyCells(board) })
                      ELSE SetMin({ value[c] : c \in EmptyCells(board) })
          IN  /\ action \in EmptyCells(board)
              /\ Result(board, action) = Place(board, action)
              /\ value[action] = best

\* a board where the early exit cuts the search: the move returned wins for
\* the player to move, legal moves after it were never scored, and one of
\* them is worse
C13_Witness ==
  /\ ~GameOver(board)
  /\ Minimax(board) # None
  /\ LET action == The(Minimax(board))
         acts == Actions(board)
     IN  /\ GameValue(Result(board, action))
              = (IF ToMove(board) = X THEN xDesiredScore ELSE oDesiredScore)
         /\ action # acts[Len(acts)]
         /\ \E c \in EmptyCells(board) :
              GameValue(Place(board, c)) # GameValue(Result(board, action))
         /\ Cardinality(EmptyCells(board)) >= 5

----------------------------------------------------------------------------
\* PageRank by sampling (03 Uncertainty/pagerank/pagerank.py).  A float is
\* modelled as the exact fraction [num, den] it stands for.

\* n, the number of samples asked of sample_pagerank
MaxSamples == 3

Pages == { "1.html", "2.html", "3.html" }

\* what crawl can return: every page of a non-empty corpus maps to a set of
\* other pages of the corpus
Corpora ==
  UNION { { c \in [ P -> SUBSET P ] : \A page \in P : page \notin c[page] } :
          P \in (SUBSET Pages) \ { {} } }

RECURSIVE Gcd(_, _)
Gcd(a, b) == IF b = 0 THEN a ELSE Gcd(b, a % b)

\* the fraction n/d in lowest terms
Frac(n, d) == [ num |-> n \div Gcd(n, d), den |-> d \div Gcd(n, d) ]
FracAdd(a, b) == Frac(a.num * b.den + b.num * a.den, a.den * b.den)
FracEq(a, b) == a.num * b.den = b.num * a.den

DAMPING == Frac(85, 100)

\* the dict transition_model has built when it returns
Transitions(c, page, damping_factor) ==
  LET pages_count == Cardinality(DOMAIN c)
      linked_pages_count == Cardinality(c[page])
      equal_probability == Frac(1, pages_count)
      random_page_probability ==
        Frac(damping_factor.den - damping_factor.num, damping_factor.den * pages_count)
      linked_pages_probability ==
        Frac(damping_factor.num, damping_factor.den * linked_pages_count)
  IN  IF linked_pages_count = 0
      THEN [ filename \in DOMAIN c |-> equal_probability ]
      ELSE [ filename \in DOMAIN c |->
               IF filename \in c[page]
               THEN FracAdd(random_page_probability, linked_pages_probability)
               ELSE random_page_probability ]

\* transition_model: the value returned; the bare return of line 72 returns
\* None for a page without links
TransitionModel(c, page, damping_factor) ==
  IF Cardinality(c[page]) = 0
  THEN None
  ELSE Some(Transitions(c, page, damping_factor))

\* sample_pagerank up to the loop: zero visits, a random first page
PagerankInit ==
  /\ corpus \in Corpora
  /\ pagerank = [ filename \in DOMAIN corpus |-> 0 ]
  /\ current_page \in DOMAIN corpus
  /\ visited_pages_count = 0
  /\ ppc = "loop"
  /\ CrosswordIdle /\ MinesweeperIdle /\ TictactoeIdle

\* one iteration of the while loop of sample_pagerank
Sample ==
  /\ ppc = "loop"
  /\ visited_pages_count <= MaxSamples
  /\ visited_pages_count' = visited_pages_count + 1
  /\ pagerank' = [ pagerank EXCEPT ![current_page] = @ + 1 ]
  /\ LET transitions == TransitionModel(corpus, current_page, DAMPING)
     IN  IF transitions = None
         THEN \* None.keys()
              /\ ppc' = "AttributeError"
              /\ UNCHANGED current_page
         ELSE /\ current_page' \in
                   { next \in DOMAIN The(transitions) : The(transitions)[next].num > 0 }
              /\ UNCHANGED ppc
  /\ UNCHANGED <<corpus, crosswordVars, minesweeperVars, tictactoeVars>>

\* the end of sample_pagerank: visit counts divided by n
SampleReturn ==
  /\ ppc = "loop"
  /\ visited_pages_count > MaxSamples
  /\ pagerank' = [ filename \in DOMAIN pagerank |-> Frac(pagerank[filename], MaxSamples) ]
  /\ ppc' = "done"
  /\ UNCHANGED <<corpus, current_page, visited_pages_count,
                 crosswordVars, minesweeperVars, tictactoeVars>>

PagerankNext == Sample \/ SampleReturn

PagerankSpec == PagerankInit /\ [][PagerankNext]_vars

----------------------------------------------------------------------------
RECURSIVE FracSum(_, _)
FracSum(f, S) ==
  IF S = {} THEN Frac(0, 1)
  ELSE LET x == CHOOSE x \in S : TRUE
       IN  FracAdd(f[x], FracSum(f, S \ {x}))

\* C14 (as claimed): for every page of the corpus transition_model returns
\* a probability distribution with one entry per page, equal probabilities
\* 1/N when the page has no links, and sample_pagerank never fails on it.
C14_TransitionModelTotal ==
  /\ ppc # "AttributeError"
  /\ \A page \in DOMAIN corpus :
       LET transitions == TransitionModel(corpus, page, DAMPING)
       IN  /\ transitions # None
           /\ DOMAIN The(transitions) = DOMAIN corpus
           /\ \A next \in DOMAIN corpus : The(transitions)[next].num >= 0
           /\ FracEq(FracSum(The(transitions), DOMAIN corpus), Frac(1, 1))
           /\ corpus[page] = {} =>
                \A next \in DOMAIN corpus :
                  FracEq(The(transitions)[next], Frac(1, Cardinality(DOMAIN corpus)))

----------------------------------------------------------------------------
\* Minesweeper (02 Knowledge/minesweeper/minesweeper.py).  A cell is <<i, j>>,
\* a Sentence is [cells, count], and the mutable part of a MinesweeperAI is
\* [mines, safes, knowledge].

\* the most mines a game is created with, and the most calls of add_knowledge
MaxMines == 2
MaxMoves == 3

\* height and width of the boards played
Boards == { [height |-> 3, width |-> 3], [height |-> 2, width |-> 4] }

BoardCells(b) == (0..(b.height - 1)) \X (0..(b.width - 1))

\* Minesweeper(height, width, mines): the mines are placed at random
Games ==
  UNION { { [height |-> b.height, width |-> b.width, mines |-> M] :
              M \in { N \in SUBSET BoardCells(b) : Cardinality(N) <= MaxMines } } :
          b \in Boards }

is_mine(g, cell) == cell \in g.mines

\* nearby_mines: the mines within one row and column of cell, cell excluded
nearby_mines(g, cell) ==
  Cardinality({ c \in BoardCells(g) :
                  /\ c[1] \in (cell[1] - 1)..(cell[1] + 1)
                  /\ c[2] \in (cell[2] - 1)..(cell[2] + 1)
                  /\ c # cell
                  /\ c \in g.mines })

Sentence(cells, count) == [ cells |-> cells, count |-> count ]

\* known_mines without the test of the size: a mutation of known_mines
known_mines_any_size(s) == IF s.count > 0 THEN s.cells ELSE {}

known_mines(s) ==
  IF s.count > 0 /\ Cardinality(s.cells) = s.count THEN s.cells ELSE {}

known_safes(s) == IF s.count = 0 THEN s.cells ELSE {}

\* Sentence.mark_mine and Sentence.mark_safe
sentence_mark_mine(s, cell) ==
  IF cell \notin s.cells THEN s ELSE Sentence(s.cells \ {cell}, s.count - 1)

sentence_mark_safe(s, cell) ==
  IF cell \notin s.cells THEN s ELSE Sentence(s.cells \ {cell}, s.count)

can_make_new_knowledge_with(self, sentence) ==
  IF self.count = 0 \/ sentence.count = 0 THEN FALSE
  ELSE IF self.count = sentence.count THEN FALSE
  ELSE IF self = sentence THEN FALSE
  ELSE self.cells \subseteq sentence.cells \/ sentence.cells \subseteq self.cells

get_new_knowledge(self, sentence) ==
  IF sentence.count > self.count
  THEN Sentence(sentence.cells \ self.cells, sentence.count - self.count)
  ELSE Sentence(self.cells \ sentence.cells, self.count - sentence.count)

\* MinesweeperAI.mark_mine and MinesweeperAI.mark_safe
mark_mine(ai, cell) ==
  [ ai EXCEPT !.mines = @ \cup {cell},
              !.knowledge = [ k \in DOMAIN @ |-> sentence_mark_mine(@[k], cell) ] ]

mark_safe(ai, cell) ==
  [ ai EXCEPT !.safes = @ \cup {cell},
              !.knowledge = [ k \in DOMAIN @ |-> sentence_mark_safe(@[k], cell) ] ]

\* a loop "for safe in cells: self.mark_safe(safe)": the calls commute
RECURSIVE mark_safes(_, _)
mark_safes(ai, cells) ==
  IF cells = {} THEN ai
  ELSE LET safe == CHOOSE c \in cells : TRUE
       IN  mark_safes(mark_safe(ai, safe), cells \ {safe})

\* create_sentence: the neighbours of cell on the board that are not known
\* safe and not known mines, the count reduced by the known mines
create_sentence(ai, g, cell, count) ==
  LET neighbours == { c \in BoardCells(g) :
                        /\ c[1] \in (cell[1] - 1)..(cell[1] + 1)
                        /\ c[2] \in (cell[2] - 1)..(cell[2] + 1)
                        /\ c # cell }
  IN  Sentence(neighbours \ (ai.safes \cup ai.mines),
               count - Cardinality(neighbours \cap (ai.mines \ ai.safes)))

find_new_mines(ai) ==
  UNION { known_mines(ai.knowledge[k]) : k \in DOMAIN ai.knowledge } \ ai.mines

find_new_safes(ai) ==
  UNION { known_safes(ai.knowledge[k]) : k \in DOMAIN ai.knowledge } \ ai.safes

\* the while loop over the deque mines_q of add_knowledge: the states the AI
\* can be in when the deque is empty, a set being appended to the deque in
\* any order
RECURSIVE mines_loop(_, _)
mines_loop(ai, mines_q) ==
  IF mines_q = << >> THEN { ai }
  ELSE LET mine == Head(mines_q)
       IN  IF mine \in ai.mines THEN mines_loop(ai, Tail(mines_q))
           ELSE LET marked == mark_mine(ai, mine)
                    safe == mark_safes(marked, find_new_safes(marked))
                IN  UNION { mines_loop(safe, Tail(mines_q) \o found) :
                            found \in Perms(find_new_mines(safe)) }

\* find_new_knowledges, the for loop over self.knowledge from index k on: the
\* list grows while it is iterated
RECURSIVE knowledge_loop(_, _, _)
knowledge_loop(base, k, loop) ==
  IF k > Len(loop.knowledge) THEN loop
  ELSE LET sentence == loop.knowledge[k]
           new_knowledge == get_new_knowledge(base, sentence)
       IN  IF can_make_new_knowledge_with(base, sentence) /\ new_knowledge \notin loop.visited
           THEN knowledge_loop(base, k + 1,
                  [ visited |-> loop.visited \cup {new_knowledge},
                    base_sentence_q |-> Append(loop.base_sentence_q, new_knowledge),
                    knowledge |-> Append(loop.knowledge, new_knowledge) ])
           ELSE knowledge_loop(base, k + 1, loop)

\* find_new_knowledges, the while loop over the deque
RECURSIVE base_loop(_)
base_loop(loop) ==
  IF loop.base_sentence_q = << >> THEN loop.knowledge
  ELSE base_loop(knowledge_loop(Head(loop.base_sentence_q), 1,
                                [ loop EXCEPT !.base_sentence_q = Tail(@) ]))

find_new_knowledges(kn, base_sentence) ==
  base_loop([ visited |-> {}, base_sentence_q |-> << base_sentence >>, knowledge |-> kn ])

\* add_knowledge(cell, count): the states the AI can be left in
add_knowledge(ai, g, cell, count) ==
  LET safe == mark_safe(ai, cell)
      sentence == create_sentence(safe, g, cell, count)
      appended == [ safe EXCEPT !.knowledge = Append(@, sentence) ]
      new == Len(appended.knowledge)
      safes_marked == mark_safes(appended, known_safes(sentence))
      inferred == UNION { mines_loop(safes_marked, mines_q) :
                          mines_q \in Perms(find_new_mines(safes_marked)) }
  IN  { [ final EXCEPT !.knowledge = find_new_knowledges(@, final.knowledge[new]) ] :
        final \in inferred }

AI == [ mines |-> mines, safes |-> safes, knowledge |-> knowledge ]

\* a new game and MinesweeperAI()
MinesweeperInit ==
  /\ game \in Games
  /\ moves_made = {}
  /\ mines = {}
  /\ safes = {}
  /\ knowledge = << >>
  /\ safe_move = None
  /\ moves = 0
  /\ CrosswordIdle /\ TictactoeIdle /\ PagerankIdle

\* the board tells the AI the number of mines next to a cell that is no mine
AddKnowledge ==
  /\ moves < MaxMoves
  /\ \E cell \in BoardCells(game) :
       /\ ~is_mine(game, cell)
       /\ moves_made' = moves_made \cup {cell}
       /\ \E final \in add_knowledge(AI, game, cell, nearby_mines(game, cell)) :
            /\ mines' = final.mines
            /\ safes' = final.safes
            /\ knowledge' = final.knowledge
  /\ moves' = moves + 1
  /\ safe_move' = None
  /\ UNCHANGED <<game, crosswordVars, tictactoeVars, pagerankVars>>

\* make_safe_move: an unplayed cell of self.safes, whichever the set yields
\* first; failing that the first cell in row-major order that is neither
\* played nor a known mine; failing that None
MakeSafeMove ==
  /\ LET unplayed == safes \ moves_made
         guess == { c \in BoardCells(game) : c \notin moves_made /\ c \notin mines }
     IN  IF unplayed # {}
         THEN \E safe \in unplayed : safe_move' = Some(safe)
         ELSE IF guess # {}
         THEN safe_move' = Some(CHOOSE c \in guess :
                                  \A d \in guess :
                                    c[1] < d[1] \/ (c[1] = d[1] /\ c[2] <= d[2]))
         ELSE safe_move' = None
  /\ UNCHANGED <<game, moves_made, mines, safes, knowledge, moves,
                 crosswordVars, tictactoeVars, pagerankVars>>

MinesweeperNext == AddKnowledge \/ MakeSafeMove

MinesweeperSpec == MinesweeperInit /\ [][MinesweeperNext]_vars

----------------------------------------------------------------------------
\* a sentence is true of the game when exactly count of its cells are mines
SentenceTrue(s) == s.count = Cardinality(s.cells \cap game.mines)

\* C11: after any sequence of add_knowledge calls on cells that are no mines,
\* with their true counts, every cell of self.mines is a mine, no cell of
\* self.safes is a mine, and every sentence of self.knowledge is true, so
\* its count is between 0 and the number of its cells.
C11_KnowledgeSound ==
  /\ mines \subseteq game.mines
  /\ safes \cap game.mines = {}
  /\ \A k \in DOMAIN knowledge :
       /\ SentenceTrue(knowledge[k])
       /\ 0 <= knowledge[k].count
       /\ knowledge[k].count <= Cardinality(knowledge[k].cells)

\* the AI has found a mine and a safe cell it never played, and has inferred
\* a sentence from two others
C11_Witness ==
  /\ moves >= 2
  /\ mines # {}
  /\ safes \ moves_made # {}
  /\ Len(knowledge) > moves
  /\ \E k \in DOMAIN knowledge : knowledge[k].cells # {}

\* C12 (as claimed): make_safe_move returns None or a cell of self.safes
\* that is not in self.moves_made, and changes none of self.mines,
\* self.safes and self.moves_made.
C12_SafeMoveIsKnownSafe ==
  [][ MakeSafeMove =>
        /\ \/ safe_move' = None
           \/ \E cell \in safes \ moves_made : safe_move' = Some(cell)
        /\ UNCHANGED <<mines, safes, moves_made>> ]_vars

----------------------------------------------------------------------------
\* A call of backtrack returns None: its for loop is exhausted
ReturnsNone == pc = "bt_loop" /\ pc' = "bt_return" /\ retval' = None

\* C21: when a call of backtrack returns None, the assignment holds exactly
\* the entries it held when the call was entered; and a sibling branch
\* starts from those entries, too: at the head of its for loop the call
\* sees the assignment it was entered with.
C21_StackDiscipline ==
  [][ /\ ReturnsNone => assignment' = stack[Len(stack)].entry
      /\ pc' = "bt_loop" => assignment' = stack'[Len(stack')].entry ]_vars

\* a nested call has failed after trying a word, and its caller still holds
\* its own tentative entry
C21_Witness ==
  /\ pc = "bt_return"
  /\ retval = None
  /\ stack # << >>
  /\ DOMAIN assignment # {}
  /\ \E v \in Slots \ DOMAIN assignment : iterSeq[v] # << >>

----------------------------------------------------------------------------
\* The number of arcs waiting in the worklist of ac3
WorklistSize == Cardinality(queueArcs) + Len(queue)

\* C22: ac3 terminates: once its loop has started it returns, with the
\* worklist empty or a domain empty; and an iteration that does not make
\* the worklist shorter has strictly shrunk the domain of a slot, the
\* others unchanged.
C22_Ac3Terminates ==
  /\ (pc = "ac3_loop") ~>
       (/\ pc = "ac3_ret"
        /\ WorklistSize = 0 \/ \E x \in Slots : domains[x] = {})
  /\ [][ (pc = "ac3_loop" /\ pc' = "ac3_loop" /\ WorklistSize' >= WorklistSize) =>
           \E x \in Slots :
             /\ domains'[x] \subseteq domains[x]
             /\ domains'[x] # domains[x]
             /\ \A y \in Slots \ {x} : domains'[y] = domains[y] ]_vars

\* ac3 has returned with an empty worklist after shrinking, without
\* emptying it, the domain of a slot that has two neighbours, whose arcs it
\* put back on the worklist
C22_Witness ==
  /\ pc = "ac3_ret"
  /\ ac3Result = "True"
  /\ WorklistSize = 0
  /\ \E x \in Slots :
       /\ Cardinality(Neighbors(x)) >= 2
       /\ domains[x] # {}
       /\ domains[x] # NodeDomain(x)

====
